---- MODULE Spec2Model ----
(***************************************************************************)
(* State-machine model of the Flask application in src/app/app.py          *)
(* (src/SAST/app/app.py is the same program with other formatting).        *)
(*                                                                         *)
(* The application object holds one framework flag (_got_first_request),   *)
(* three GET handlers and the seed routine init_db.  The database accessor *)
(* get_db lives in app/db.py, which is not part of the sources; it is      *)
(* modelled from its documented contract (a new connection to an ephemeral *)
(* in-memory store on every call, failures propagate).  The lifetime of    *)
(* that store is documented as "process (or connection)"; storeScope       *)
(* carries both readings.                                                  *)
(*                                                                         *)
(* Strings that matter character for character (the name parameter) are    *)
(* sequences of one-character strings.  SQL text is a sequence of tokens.  *)
(***************************************************************************)
EXTENDS Integers, Sequences, FiniteSets, TLC

\* ----------------------------------------------------------------- bounds
MaxConns == 3      \* connections get_db hands out in one behaviour
MaxFaults == 1     \* get_db calls that raise in one behaviour
MaxTokens == 2     \* tokens of an enumerated id parameter
MaxLen == 2        \* characters of an enumerated name parameter
MaxRowId == 3      \* largest row id of a table present before init_db

VARIABLES
    storeScope,         \* "process" or "connection": lifetime of the in-memory store
    stores,             \* sequence of stores; a store is the committed users table
    nconn,              \* number of connections get_db has returned
    uses,               \* log: which caller worked on which connection and store
    faults,             \* number of get_db calls that raised
    got_first_request,  \* Flask's flag behind @app.before_first_request
    hookRuns,           \* runs of _init started by the before_first_request hook
    hookDone,           \* runs of _init that returned
    ctx                 \* the operation being served: its input and its outcome

vars == <<storeScope, stores, nconn, uses, faults, got_first_request, hookRuns, hookDone, ctx>>

\* ------------------------------------------------------------ small helpers
Max(S) == CHOOSE x \in S : \A y \in S : y <= x

RECURSIVE SeqsUpTo(_, _)
SeqsUpTo(S, n) ==
    IF n = 0 THEN {<<>>}
    ELSE LET shorter == SeqsUpTo(S, n - 1)
         IN shorter \cup {Append(s, x) : s \in shorter, x \in S}

FirstIndex(seq, tok) ==
    IF \E i \in 1..Len(seq) : seq[i] = tok
    THEN CHOOSE i \in 1..Len(seq) : seq[i] = tok /\ \A j \in 1..(i - 1) : seq[j] # tok
    ELSE 0

RECURSIVE SplitBy(_, _)
SplitBy(seq, sep) ==
    LET i == FirstIndex(seq, sep)
    IN IF i = 0 THEN <<seq>>
       ELSE <<SubSeq(seq, 1, i - 1)>> \o SplitBy(SubSeq(seq, i + 1, Len(seq)), sep)

\* ------------------------------------------------------------ the users table
\* CREATE TABLE users (id INTEGER PRIMARY KEY, name TEXT): rows are kept in
\* rowid order, which is the order a scan returns them in.
NoTable == [exists |-> FALSE, rows |-> <<>>]

Row(i, n) == [id |-> i, name |-> n]

\* db.execute("CREATE TABLE IF NOT EXISTS users (...)")
CreateTableIfNotExists(t) ==
    IF t.exists THEN t ELSE [exists |-> TRUE, rows |-> <<>>]

\* seeded fault: the DELETE is left out
DeleteAll_kept(t) == t

\* db.execute("DELETE FROM users")
DeleteAll(t) == [t EXCEPT !.rows = <<>>]

\* INSERT INTO users(name) VALUES(?): the id is the rowid SQLite assigns to an
\* INTEGER PRIMARY KEY column, one more than the largest id in the table.
InsertName(t, n) ==
    LET newId == IF t.rows = <<>> THEN 1
                 ELSE Max({t.rows[i].id : i \in 1..Len(t.rows)}) + 1
    IN [t EXCEPT !.rows = Append(@, Row(newId, n))]

RECURSIVE InsertMany(_, _)
InsertMany(t, names) ==
    IF names = <<>> THEN t
    ELSE InsertMany(InsertName(t, Head(names)), Tail(names))

SeedNames == <<"Alice", "Bob">>

\* ------------------------------------------------------------ query execution
IntTokens == {"0", "1", "2", "3"}
IntVal(tok) == CASE tok = "0" -> 0 [] tok = "1" -> 1 [] tok = "2" -> 2 [] OTHER -> 3
Columns == {"id"}
Identifiers == {"id", "zz", "users"}
IsAtom(tok) == tok \in IntTokens \cup Identifiers

AtomVal(tok, row) == IF tok \in IntTokens THEN IntVal(tok) ELSE row.id

\* a = b = c is ((a = b) = c); a comparison yields 1 or 0.
RECURSIVE EqFold(_, _, _)
EqFold(v, atoms, row) ==
    IF atoms = <<>> THEN v
    ELSE EqFold(IF v = AtomVal(Head(atoms), row) THEN 1 ELSE 0, Tail(atoms), row)

\* the atoms of one OR-operand, each a one-token "="-operand
Operands(seg) == SplitBy(seg, "=")
AtomsOf(seg) == [i \in 1..Len(Operands(seg)) |-> Operands(seg)[i][1]]

SegVal(seg, row) ==
    LET atoms == AtomsOf(seg) IN EqFold(AtomVal(Head(atoms), row), Tail(atoms), row)

\* "=" binds tighter than OR; a WHERE expression selects a row when it is non-zero.
WhereTrue(expr, row) ==
    \E i \in 1..Len(SplitBy(expr, "OR")) : SegVal(SplitBy(expr, "OR")[i], row) # 0

SyntaxOk(expr) ==
    \A i \in 1..Len(SplitBy(expr, "OR")) :
        \A j \in 1..Len(Operands(SplitBy(expr, "OR")[i])) :
            LET operand == Operands(SplitBy(expr, "OR")[i])[j]
            IN Len(operand) = 1 /\ IsAtom(operand[1])

ColumnsOk(expr) ==
    \A i \in 1..Len(expr) : expr[i] \in Identifiers => expr[i] \in Columns

SelectPrefix == <<"SELECT", "*", "FROM", "users", "WHERE">>

\* f"SELECT * FROM users WHERE id = {uid}": the raw parameter is spliced into the text.
SelectQuery(uid) == SelectPrefix \o <<"id", "=">> \o uid

\* db.execute(query).fetchall() against committed table t.  Only the first
\* statement of the text is prepared; text after its ";" is refused.
Execute(query, t) ==
    LET semi == FirstIndex(query, ";")
        stmt == IF semi = 0 THEN query ELSE SubSeq(query, 1, semi - 1)
        tail == IF semi = 0 THEN <<>> ELSE SubSeq(query, semi + 1, Len(query))
        expr == SubSeq(stmt, Len(SelectPrefix) + 1, Len(stmt))
        Fail(m) == [ok |-> FALSE, err |-> m, rows |-> <<>>]
    IN IF ~SyntaxOk(expr) THEN Fail("syntax error")
       ELSE IF ~t.exists THEN Fail("no such table: users")
       ELSE IF ~ColumnsOk(expr) THEN Fail("no such column")
       ELSE IF tail # <<>> THEN Fail("You can only execute one statement at a time.")
       ELSE [ok |-> TRUE, err |-> "",
             rows |-> SelectSeq(t.rows, LAMBDA r : WhereTrue(expr, r))]

\* ------------------------------------------------------------ requests, responses
Absent == [has |-> FALSE, val |-> <<>>]
Given(v) == [has |-> TRUE, val |-> v]

\* request.args.get(key, default)
args_get(arg, default) == IF arg.has THEN arg.val ELSE default

NoBody == [kind |-> "none", text |-> <<>>, rows |-> <<>>, pairs |-> <<>>]
Html(text) == [NoBody EXCEPT !.kind = "html", !.text = text]
JsonArray(rows) == [NoBody EXCEPT !.kind = "json_array", !.rows = rows]
JsonObject(pairs) == [NoBody EXCEPT !.kind = "json_object", !.pairs = pairs]
Response(status, body) == [status |-> status, body |-> body]

\* an exception that leaves the view function or the hook: Flask answers 500
ServerError == Response(500, [NoBody EXCEPT !.kind = "server_error"])
NoResponse == Response(0, NoBody)

\* the mutable part of the state a call works on; events lists the calls made
\* while the current operation is served, in order
World == [stores |-> stores, nconn |-> nconn, uses |-> uses, faults |-> faults,
          events |-> <<>>]

Event(w, e) == [w EXCEPT !.events = Append(@, e)]

\* ------------------------------------------------------------ database accessor
\* get_db(): a new connection on every call.  With a store that lives as long
\* as the process every connection attaches to store 1; with a store that
\* lives as long as its connection every connection brings its own, empty one.
\* A failure to open raises and returns no connection.
get_db(w, fail) ==
    IF fail
    THEN [raised |-> TRUE, conn |-> 0, store |-> 0,
          w |-> Event([w EXCEPT !.faults = @ + 1], "get_db raised")]
    ELSE [raised |-> FALSE,
          conn |-> w.nconn + 1,
          store |-> IF storeScope = "process" THEN 1 ELSE Len(w.stores) + 1,
          w |-> Event([w EXCEPT !.nconn = @ + 1,
                                !.stores = IF storeScope = "process" THEN @
                                           ELSE Append(@, NoTable)], "get_db")]

\* the caller keeps the connection in its local variable db
Use(w, by, g) ==
    [w EXCEPT !.uses = Append(@, [by |-> by, conn |-> g.conn, store |-> g.store])]

\* db.commit(): the pending changes of the connection become the committed table.
commit(txn) == [txn EXCEPT !.committed = txn.working]

\* ------------------------------------------------------------ seed routine
\* init_db(): the CREATE runs outside a transaction and is committed at once,
\* DELETE and INSERT run in the transaction that commit() ends.  The store
\* keeps what is committed when the function returns.
init_db(w, fail) ==
    LET g == get_db(Event(w, "init_db"), fail)
    IN IF g.raised THEN [raised |-> TRUE, found |-> NoTable, w |-> g.w]
       ELSE LET found == g.w.stores[g.store]
                created == CreateTableIfNotExists(found)
                filled == InsertMany(DeleteAll(created), SeedNames)
                txn == commit([committed |-> created, working |-> filled])
            IN [raised |-> FALSE, found |-> found,
                w |-> Event([Use(g.w, "init_db", g) EXCEPT
                               !.stores[g.store] = txn.committed], "init_db returned")]

\* _init(): the function registered with @app.before_first_request
_init(w, fail) == init_db(Event(w, "_init"), fail)

\* seeded fault: the hook is registered with before_request and runs every time
before_first_request_always(w, got, fail) ==
    LET r == _init(w, fail)
    IN IF r.raised THEN [hook |-> "raised", got |-> got, w |-> r.w]
       ELSE [hook |-> "completed", got |-> TRUE, w |-> r.w]

\* Flask runs the registered functions before the first request and sets
\* _got_first_request after they return; when one raises, the request ends
\* with the exception and the flag stays unset.
before_first_request(w, got, fail) ==
    IF got THEN [hook |-> "skipped", got |-> TRUE, w |-> w]
    ELSE LET r == _init(w, fail)
         IN IF r.raised THEN [hook |-> "raised", got |-> FALSE, w |-> r.w]
            ELSE [hook |-> "completed", got |-> TRUE, w |-> r.w]

\* ------------------------------------------------------------ handlers
\* what a view function hands back: its response, the world it leaves, whether
\* its get_db call succeeded, and the committed table its connection found
Handled(w, resp, db, found) == [w |-> w, resp |-> resp, db |-> db, found |-> found]

\* seeded fault: the health check opens a connection of its own
health_probe(w) ==
    LET g == get_db(Event(w, "health"), FALSE)
    IN Handled(Use(g.w, "health", g), Response(200, JsonObject(<<<<"status", "ok">>>>)),
               "ok", NoTable)

\* GET /health
health(w) ==
    Handled(Event(w, "health"), Response(200, JsonObject(<<<<"status", "ok">>>>)),
            "none", NoTable)

HelloPrefix == <<"<", "h", "1", ">", "H", "e", "l", "l", "o", " ">>
HelloSuffix == <<"<", "/", "h", "1", ">">>
DefaultName == <<"w", "o", "r", "l", "d">>

\* seeded fault: the name is HTML-escaped before it is interpolated
RECURSIVE Escape(_)
Escape(text) ==
    IF text = <<>> THEN <<>>
    ELSE (CASE Head(text) = "<" -> <<"&", "l", "t", ";">>
            [] Head(text) = "&" -> <<"&", "a", "m", "p", ";">>
            [] OTHER -> <<Head(text)>>) \o Escape(Tail(text))

hello_escaped(w, arg) ==
    LET name == Escape(args_get(arg, DefaultName))
    IN Handled(Event(w, "hello"), Response(200, Html(HelloPrefix \o name \o HelloSuffix)),
               "none", NoTable)

\* GET /hello
hello(w, arg) ==
    LET name == args_get(arg, DefaultName)
    IN Handled(Event(w, "hello"), Response(200, Html(HelloPrefix \o name \o HelloSuffix)),
               "none", NoTable)

DefaultId == <<"1">>

\* seeded fault: get_db() is called inside the try block
user_guarded(w, arg, fail) ==
    LET uid == args_get(arg, DefaultId)
        g == get_db(Event(w, "user"), fail)
    IN IF g.raised
       THEN Handled(g.w, Response(400, JsonObject(<<<<"error", "unable to open">>>>)),
                    "raised", NoTable)
       ELSE LET found == g.w.stores[g.store]
                r == Execute(SelectQuery(uid), found)
                w2 == Event(Use(g.w, "user", g), "execute")
            IN IF r.ok
               THEN Handled(w2, Response(200, JsonArray(r.rows)), "ok", found)
               ELSE Handled(w2, Response(400, JsonObject(<<<<"error", r.err>>>>)),
                            "ok", found)

\* seeded fault: the handler reuses the connection opened last instead of
\* opening its own
user_pooled(w, arg, fail) ==
    LET uid == args_get(arg, DefaultId)
        g == IF w.uses = <<>> THEN get_db(Event(w, "user"), fail)
             ELSE [raised |-> FALSE, conn |-> w.uses[Len(w.uses)].conn,
                   store |-> w.uses[Len(w.uses)].store, w |-> Event(w, "user")]
    IN IF g.raised THEN Handled(g.w, ServerError, "raised", NoTable)
       ELSE LET found == g.w.stores[g.store]
                r == Execute(SelectQuery(uid), found)
                w2 == Event(Use(g.w, "user", g), "execute")
            IN IF r.ok
               THEN Handled(w2, Response(200, JsonArray(r.rows)), "ok", found)
               ELSE Handled(w2, Response(400, JsonObject(<<<<"error", r.err>>>>)),
                            "ok", found)

\* seeded fault: the query text is run as a script, so a statement after ";"
\* is executed too and DROP TABLE users takes effect
user_script(w, arg, fail) ==
    LET uid == args_get(arg, DefaultId)
        g == get_db(Event(w, "user"), fail)
    IN IF g.raised THEN Handled(g.w, ServerError, "raised", NoTable)
       ELSE LET found == g.w.stores[g.store]
                semi == FirstIndex(uid, ";")
                first == IF semi = 0 THEN uid ELSE SubSeq(uid, 1, semi)
                drops == semi # 0 /\ semi < Len(uid) /\ uid[semi + 1] = "DROP"
                r == Execute(SelectQuery(first), found)
                w1 == Event(Use(g.w, "user", g), "execute")
                w2 == IF r.ok /\ drops THEN [w1 EXCEPT !.stores[g.store] = NoTable] ELSE w1
            IN IF r.ok
               THEN Handled(w2, Response(200, JsonArray(r.rows)), "ok", found)
               ELSE Handled(w2, Response(400, JsonObject(<<<<"error", r.err>>>>)),
                            "ok", found)

\* GET /user: get_db() is called outside the try block, the query inside it.
\* The SELECT is never committed and changes nothing.
user(w, arg, fail) ==
    LET uid == args_get(arg, DefaultId)
        g == get_db(Event(w, "user"), fail)
    IN IF g.raised THEN Handled(g.w, ServerError, "raised", NoTable)
       ELSE LET found == g.w.stores[g.store]
                r == Execute(SelectQuery(uid), found)
                w2 == Event(Use(g.w, "user", g), "execute")
            IN IF r.ok
               THEN Handled(w2, Response(200, JsonArray(r.rows)), "ok", found)
               ELSE Handled(w2, Response(400, JsonObject(<<<<"error", r.err>>>>)),
                            "ok", found)

\* routing by path
dispatch_request(w, req, fail) ==
    CASE req.path = "/health" -> health(w)
      [] req.path = "/hello" -> hello(w, req.arg)
      [] OTHER -> user(w, req.arg, fail)

\* ------------------------------------------------------------ inputs
NameChars == {"a", "<", "&"}
NameInputs == {Absent} \cup {Given(s) : s \in SeqsUpTo(NameChars, MaxLen)}

UidTokens == {"1", "2", "OR", "=", "id", "zz"}
NamedPayloads ==
    { <<"1", "OR", "1", "=", "1">>,
      <<"3", "OR", "id", "=", "id">>,
      <<"1", ";">>,
      <<"1", ";", "DROP", "TABLE", "users">> }
UidInputs == {Absent} \cup {Given(s) : s \in SeqsUpTo(UidTokens, MaxTokens) \cup NamedPayloads}

Req(path, arg) == [path |-> path, arg |-> arg]
Requests ==
    {Req("/health", Absent)}
    \cup {Req("/hello", a) : a \in NameInputs}
    \cup {Req("/user", a) : a \in UidInputs}

\* ------------------------------------------------------------ state machine
Bounded(w) == w.nconn <= MaxConns /\ w.faults <= MaxFaults

Install(w) ==
    /\ stores' = w.stores
    /\ nconn' = w.nconn
    /\ uses' = w.uses
    /\ faults' = w.faults

\* ctx.entry is the part of the world the view function (or the direct call)
\* started from, ctx.found the committed table its connection found
Entry(w) == [stores |-> w.stores, nconn |-> w.nconn]

Idle == [op |-> "none", req |-> Req("", Absent), resp |-> NoResponse,
         hook |-> "none", db |-> "none", found |-> NoTable,
         entry |-> Entry([stores |-> <<>>, nconn |-> 0]), events |-> <<>>]

InitCommon ==
    /\ storeScope \in {"process", "connection"}
    /\ nconn = 0
    /\ uses = <<>>
    /\ faults = 0
    /\ got_first_request = FALSE
    /\ hookRuns = 0
    /\ hookDone = 0
    /\ ctx = Idle

\* At process start the store that lives with the process holds no table.
Init ==
    /\ InitCommon
    /\ stores = IF storeScope = "process" THEN <<NoTable>> ELSE <<>>

\* One GET request, from the before_first_request hook to the response.  The
\* server handles one request at a time: the next one starts after Finish.
\* failInit and failView say whether the get_db call of the hook and of the
\* view function raises (FALSE when that call is not made).
HandleRequest(req, failInit, failView) ==
    LET b == before_first_request(World, got_first_request, failInit)
        h == IF b.hook = "raised" THEN Handled(b.w, ServerError, "none", NoTable)
             ELSE dispatch_request(b.w, req, failView)
    IN /\ ctx.op = "none"
       /\ got_first_request => ~failInit
       /\ (b.hook = "raised" \/ req.path # "/user") => ~failView
       /\ Bounded(h.w)
       /\ Install(h.w)
       /\ got_first_request' = b.got
       /\ hookRuns' = IF b.hook = "skipped" THEN hookRuns ELSE hookRuns + 1
       /\ hookDone' = IF b.hook = "completed" THEN hookDone + 1 ELSE hookDone
       /\ ctx' = [op |-> "GET", req |-> req, resp |-> h.resp, hook |-> b.hook,
                  db |-> h.db, found |-> h.found, entry |-> Entry(b.w),
                  events |-> h.w.events]
       /\ UNCHANGED storeScope

Request == \E req \in Requests, failInit \in BOOLEAN, failView \in BOOLEAN :
               HandleRequest(req, failInit, failView)

\* init_db() called directly, outside any request (the module exports it).
CallInitDb ==
    \E fail \in BOOLEAN :
        LET r == init_db(World, fail)
        IN /\ ctx.op = "none"
           /\ Bounded(r.w)
           /\ Install(r.w)
           /\ ctx' = [Idle EXCEPT !.op = "init_db",
                                  !.db = IF r.raised THEN "raised" ELSE "ok",
                                  !.found = r.found,
                                  !.entry = Entry(World),
                                  !.events = r.w.events]
           /\ UNCHANGED <<storeScope, got_first_request, hookRuns, hookDone>>

\* The response has been sent (or the call has returned) and its context is gone.
Finish ==
    /\ ctx.op # "none"
    /\ ctx' = Idle
    /\ UNCHANGED <<storeScope, stores, nconn, uses, faults, got_first_request,
                   hookRuns, hookDone>>

Next == Request \/ CallInitDb \/ Finish

Spec == Init /\ [][Next]_vars

\* ------------------------------------------------------------ init_db on any table
\* A specification for the seed routine alone: the store that lives with the
\* process starts with any users table of at most MaxRowId rows.
PriorNames == {"Alice", "Bob", "Eve"}

RECURSIVE RowsOf(_, _)
RowsOf(ids, nameOf) ==
    IF ids = {} THEN <<>>
    ELSE LET m == Max(ids)
         IN Append(RowsOf(ids \ {m}, nameOf), Row(m, nameOf[m]))

PriorTables ==
    {NoTable} \cup
    { [exists |-> TRUE, rows |-> RowsOf(ids, nameOf)] :
        ids \in SUBSET (1..MaxRowId), nameOf \in [1..MaxRowId -> PriorNames] }

InitSeed ==
    /\ InitCommon
    /\ stores \in IF storeScope = "process" THEN {<<t>> : t \in PriorTables} ELSE {<<>>}

NextSeed == CallInitDb \/ Finish

SpecSeed == InitSeed /\ [][NextSeed]_vars

\* ============================================================ properties
\* the content init_db is documented to leave
Seeded == [exists |-> TRUE, rows |-> <<Row(1, "Alice"), Row(2, "Bob")>>]

IsGet(path) == ctx.op = "GET" /\ ctx.req.path = path
Has(events, e) == \E i \in 1..Len(events) : events[i] = e
Pos(events, e) == FirstIndex(events, e)
OkBody == JsonObject(<<<<"status", "ok">>>>)

\* C1 (as stated): GET /user without id, served through a connection the
\* handler obtained from get_db(), returns status 200.
ClaimC1_DefaultUserReturns200 ==
    (IsGet("/user") /\ ~ctx.req.arg.has /\ ctx.db = "ok") => ctx.resp.status = 200

\* C2 (as stated): GET /user?id=1 returns a JSON array holding exactly the one
\* object {"id": 1, "name": "Alice"}, after any earlier requests and init_db calls.
ClaimC2_UserOneIsAlice ==
    (IsGet("/user") /\ ctx.req.arg = Given(<<"1">>) /\ ctx.db = "ok")
        => ctx.resp = Response(200, JsonArray(<<Row(1, "Alice")>>))

\* C3 (as stated): an id that makes the interpolated filter always true returns
\* status 200 with both seeded rows, Alice and Bob.
AlwaysTruePayloads == {<<"1", "OR", "1", "=", "1">>, <<"3", "OR", "id", "=", "id">>, <<"id">>}

ClaimC3_InjectionReturnsAllRows ==
    (IsGet("/user") /\ ctx.req.arg.has /\ ctx.req.arg.val \in AlwaysTruePayloads
        /\ ctx.db = "ok")
        => ctx.resp = Response(200, JsonArray(<<Row(1, "Alice"), Row(2, "Bob")>>))

\* C4: when init_db has returned, the users table of the store it worked on
\* holds exactly the two rows Alice and Bob, whatever it held before, so any
\* number of calls leaves what one call leaves.
TheoremC4_InitDbSeedsTwoRows ==
    (ctx.op = "init_db" /\ ctx.db = "ok") =>
        LET t == stores[uses[Len(uses)].store]
        IN /\ t.exists
           /\ Len(t.rows) = 2
           /\ t.rows[1].name = "Alice"
           /\ t.rows[2].name = "Bob"
           /\ t = Seeded

WitnessC4_ReseedOverOtherRows ==
    /\ ctx.op = "init_db"
    /\ ctx.db = "ok"
    /\ Len(ctx.found.rows) = 3
    /\ ctx.found.rows[3].name = "Eve"

\* C5 (as stated): after any request, the before_first_request hook has run
\* init_db exactly once.
ClaimC5_HookRunsExactlyOnce == ctx.op = "GET" => hookRuns = 1

\* C5 (amended): the hook starts init_db on every request until one run
\* returns; every other run is one whose get_db raised; exactly one run
\* returns, it returns before the first view function starts, and once it has
\* returned no request starts init_db again.
InvC5 ==
    /\ hookDone <= 1
    /\ got_first_request <=> hookDone = 1
    /\ hookRuns - hookDone <= faults
    /\ ctx.op = "GET" =>
        /\ ctx.hook = "skipped" => (hookDone = 1 /\ ~Has(ctx.events, "_init"))
        /\ ctx.hook = "raised" =>
              (~got_first_request /\ ctx.resp = ServerError
               /\ \A v \in {"health", "hello", "user"} : ~Has(ctx.events, v))
        /\ ctx.hook = "completed" =>
              (hookDone = 1
               /\ \A v \in {"health", "hello", "user"} :
                     Has(ctx.events, v) =>
                        Pos(ctx.events, "init_db returned") < Pos(ctx.events, v))
        /\ (\E v \in {"health", "hello", "user"} : Has(ctx.events, v)) => hookDone = 1

TheoremC5_HookRunsUntilItReturns ==
    [](InvC5) /\ [][got_first_request => (hookRuns' = hookRuns /\ hookDone' = hookDone)]_vars

WitnessC5_SecondRunThenSkipped ==
    ctx.op = "GET" /\ ctx.hook = "skipped" /\ hookRuns = 2 /\ hookDone = 1

\* C6: /user answers 400 with {"error": message} exactly when executing the
\* interpolated query raises and 200 with the array of rows otherwise; an
\* exception of get_db() is not turned into 400 but leaves the handler.
TheoremC6_UserStatusFollowsQuery ==
    (IsGet("/user") /\ ctx.hook # "raised") =>
        LET r == Execute(SelectQuery(args_get(ctx.req.arg, DefaultId)), ctx.found)
        IN /\ ctx.db \in {"ok", "raised"}
           /\ ctx.db = "raised" =>
                (ctx.resp.status = 500 /\ ctx.resp.body.kind = "server_error"
                 /\ ~Has(ctx.events, "execute"))
           /\ ctx.db = "ok" =>
                /\ ctx.resp.status \in {200, 400}
                /\ ctx.resp.status = 400 <=> ~r.ok
                /\ ctx.resp.status = 400 =>
                      (ctx.resp.body.kind = "json_object"
                       /\ ctx.resp.body.pairs = <<<<"error", r.err>>>>)
                /\ ctx.resp.status = 200 =>
                      (ctx.resp.body.kind = "json_array" /\ ctx.resp.body.rows = r.rows)

WitnessC6_QueryErrorOnSeededTable ==
    IsGet("/user") /\ ctx.resp.status = 400 /\ ctx.found = Seeded

\* C7 (as stated): GET /health returns 200 and {"status": "ok"} in every
\* reachable state.
ClaimC7_HealthAlways200 == IsGet("/health") => ctx.resp = Response(200, OkBody)

\* C7 (amended): GET /health returns 200 and {"status": "ok"} whenever the
\* before_first_request hook did not raise on that request (when it raises,
\* the request ends in the server error and the handler does not run); the
\* handler opens no connection and leaves every store unchanged.
TheoremC7_HealthOkUnlessHookRaises ==
    IsGet("/health") =>
        /\ ctx.hook # "raised" =>
              /\ ctx.resp = Response(200, OkBody)
              /\ ctx.events[Len(ctx.events)] = "health"
              /\ nconn = ctx.entry.nconn
              /\ stores = ctx.entry.stores
        /\ ctx.hook = "raised" => (ctx.resp = ServerError /\ ~Has(ctx.events, "health"))

WitnessC7_HealthAfterFailedUser ==
    /\ IsGet("/health")
    /\ ctx.hook = "skipped"
    /\ ctx.resp.status = 200
    /\ faults = 1
    /\ \E i \in 1..Len(uses) : uses[i].by = "user"

\* C8 (as stated): for every name, GET /hello returns 200 with the body
\* "<h1>Hello " + name + "</h1>", name unchanged, and "world" when absent.
ClaimC8_HelloAlwaysReflects ==
    IsGet("/hello") =>
        ctx.resp = Response(200, Html(HelloPrefix \o args_get(ctx.req.arg, DefaultName)
                                      \o HelloSuffix))

\* C8 (amended): the same, whenever the before_first_request hook did not raise
\* on that request; when it raises the request ends in the server error.
TheoremC8_HelloReflectsUnlessHookRaises ==
    IsGet("/hello") =>
        LET name == IF ctx.req.arg.has THEN ctx.req.arg.val ELSE <<"w", "o", "r", "l", "d">>
            text == ctx.resp.body.text
        IN /\ ctx.hook # "raised" =>
                /\ ctx.resp.status = 200
                /\ ctx.resp.body.kind = "html"
                /\ Len(text) = 10 + Len(name) + 5
                /\ SubSeq(text, 1, 10) = <<"<", "h", "1", ">", "H", "e", "l", "l", "o", " ">>
                /\ \A i \in 1..Len(name) : text[10 + i] = name[i]
                /\ SubSeq(text, 11 + Len(name), Len(text)) = <<"<", "/", "h", "1", ">">>
           /\ ctx.hook = "raised" => ctx.resp = ServerError

WitnessC8_MarkupReflected ==
    IsGet("/hello") /\ ctx.resp.status = 200 /\ ctx.req.arg = Given(<<"<", "&">>)

\* C9: every connection in use came from its own get_db() call: no two users
\* (init_db runs, /user requests) hold the same connection, and a /user
\* request works on the connection its own call returned.
TheoremC9_ConnectionsNeverShared ==
    /\ Len(uses) = nconn
    /\ \A i, j \in 1..Len(uses) : i # j => uses[i].conn # uses[j].conn
    /\ \A i \in 1..Len(uses) : uses[i].by \in {"init_db", "user"}
    /\ (IsGet("/user") /\ ctx.db = "ok") =>
          /\ nconn = ctx.entry.nconn + 1
          /\ uses[Len(uses)] = [by |-> "user", conn |-> nconn,
                                store |-> IF storeScope = "process" THEN 1 ELSE nconn]
          /\ Pos(ctx.events, "user") < Len(ctx.events)
          /\ ctx.events[Len(ctx.events) - 1] = "get_db"

WitnessC9_InitAndTwoUsers ==
    /\ Len(uses) = 3
    /\ uses[1].by = "init_db"
    /\ uses[2].by = "user"
    /\ uses[3].by = "user"

\* C10: no request changes the rows of a users table: a view function leaves
\* every store as it found it, and every users table that exists holds the
\* two seeded records with distinct ids, which only init_db writes.
TheoremC10_RequestsLeaveTableAlone ==
    /\ \A s \in 1..Len(stores) :
          stores[s].exists =>
             /\ stores[s] = Seeded
             /\ \A i, j \in 1..Len(stores[s].rows) :
                   i # j => stores[s].rows[i].id # stores[s].rows[j].id
    /\ \A i \in 1..Len(uses) : uses[i].by = "init_db" => stores[uses[i].store] = Seeded
    /\ ctx.op = "GET" =>
          \A s \in 1..Len(ctx.entry.stores) : stores[s] = ctx.entry.stores[s]

WitnessC10_DropPayloadRefused ==
    /\ IsGet("/user")
    /\ ctx.req.arg = Given(<<"1", ";", "DROP", "TABLE", "users">>)
    /\ ctx.hook = "skipped"
    /\ ctx.resp.status = 400
    /\ ctx.found = Seeded
    /\ stores[1] = Seeded

====
